---- MODULE Spec2Model ----
(***************************************************************************)
(* A model of the assignment-helper backend of src/main.py: the process-   *)
(* wide model handle and its lru_cache'd resolution, the bounded question  *)
(* history, the GET /test and POST /api/ handlers, the archive scan and    *)
(* the answer clean-up.                                                    *)
(*                                                                         *)
(* Strings that the code inspects character by character (model output,    *)
(* CSV cells) are sequences of one-character strings.  The handlers run on *)
(* one event loop: a handler runs without interruption up to its next      *)
(* await; the only await of get_answer is await file.read().             *)
(***************************************************************************)
EXTENDS Integers, Sequences, FiniteSets, TLC

\* ------------------------------------------------------------------ bounds
\* Requests (GET /test, POST /api/) that arrive in one behaviour.
MaxRequests == 2
\* POST /api/ requests suspended at await file.read() at the same time.
MaxInflight == 2
\* Length of the strings normalisation is checked on.
MaxLen == 5

\* --------------------------------------------------------------- constants
\* main.py:269  if len(question_history) > 100
HistoryCap == 100
\* main.py:296  answer[3:-3]
FenceLen == 3

\* Python's None, for the values that are identifiers (model names).
None == "None"

\* main.py:94-99
model_names ==
  << "models/gemini-1.5-flash", "gemini-1.5-flash",
     "models/gemini-1.5-pro", "gemini-1.5-pro" >>

VARIABLES
  gemini_model,      \* main.py:87   the global handle: None or the name it is bound to
  name_cache,        \* main.py:91   lru_cache of get_cached_model_name: [computed, name]
  question_history,  \* main.py:88   sequence of records
  clock,             \* datetime.datetime.now(): advances with every handler step
  steps,             \* requests that may still arrive in this behaviour
  inflight,          \* POST /api/ requests suspended at await file.read()
  probeLog,          \* every smoke-test probe issued so far, in order: [name, outcome]
  last,              \* what the handler step just taken did (its response)
  normIn, normOut, normAgain, normStage   \* normalisation applied twice to one input

vars ==
  << gemini_model, name_cache, question_history, clock, steps, inflight,
     probeLog, last, normIn, normOut, normAgain, normStage >>

normVars == << normIn, normOut, normAgain, normStage >>
appVars ==
  << gemini_model, name_cache, question_history, clock, steps, inflight,
     probeLog, last >>

\* ------------------------------------------------------- strings as sequences
WS == " "
DQ == "\""
SQ == "'"
\* The backtick, written as a tilde: the lexer admits no backtick in a string.
BT == "~"

\* str.strip(): drop leading and trailing whitespace.
RECURSIVE LStrip(_)
LStrip(s) == IF s # <<>> /\ Head(s) = WS THEN LStrip(Tail(s)) ELSE s

RECURSIVE RStrip(_)
RStrip(s) ==
  IF s # <<>> /\ s[Len(s)] = WS THEN RStrip(SubSeq(s, 1, Len(s) - 1)) ELSE s

Strip(s) == RStrip(LStrip(s))

IsQuote(c) == c = DQ \/ c = SQ

\* main.py:292  both quote characters are replaced by nothing, anywhere
RemoveQuotes(s) == SelectSeq(s, LAMBDA c : ~IsQuote(c))

\* main.py:295  answer.startswith(fence)
StartsWithFence(s) ==
  Len(s) >= FenceLen /\ \A i \in 1..FenceLen : s[i] = BT

\* main.py:295  answer.endswith(fence)
EndsWithFence(s) ==
  Len(s) >= FenceLen /\ \A i \in (Len(s) - FenceLen + 1)..Len(s) : s[i] = BT

\* answer[3:-3]: empty when the two fences overlap.
Slice3(s) == SubSeq(s, FenceLen + 1, Len(s) - FenceLen)

\* A plausible slip: the fence is never taken off.
normalize_keep_fence(raw) == RemoveQuotes(Strip(raw))

\* main.py:291-296
normalize(raw) ==
  LET stripped == Strip(raw)
      unquoted == RemoveQuotes(stripped)
  IN  IF StartsWithFence(unquoted) /\ EndsWithFence(unquoted)
        THEN Strip(Slice3(unquoted))
        ELSE unquoted

\* ---------------------------------------------------------- model resolution
\* What a smoke test (generate_content of the prompt Test) can do: return a response
\* with a non-empty text, with an empty text, with no text attribute, or raise.
ProbeOutcomes == {"text", "empty", "notext", "raise"}

\* main.py:106  the response is truthy and has a text attribute
Accepts(o) == o = "text" \/ o = "empty"

\* main.py:101-113: the loop over the candidates from index i on.  oc[i] is what
\* the probe of candidate i does.  Returns the name and the probes issued.
RECURSIVE ProbeFrom(_, _, _)
ProbeFrom(L, oc, i) ==
  IF i > Len(L) THEN [name |-> None, log |-> <<>>]
  ELSE LET probe == [name |-> L[i], outcome |-> oc[i]]
       IN  IF Accepts(oc[i])
             THEN [name |-> L[i], log |-> << probe >>]
             ELSE LET rest == ProbeFrom(L, oc, i + 1)
                  IN  [name |-> rest.name, log |-> << probe >> \o rest.log]

\* A plausible slip: a missing return keeps the loop going, so the last
\* working candidate wins.
RECURSIVE ProbeAll(_, _, _)
ProbeAll(L, oc, i) ==
  IF i > Len(L) THEN [name |-> None, log |-> <<>>]
  ELSE LET probe == [name |-> L[i], outcome |-> oc[i]]
           rest == ProbeAll(L, oc, i + 1)
       IN  [name |-> IF rest.name # None THEN rest.name
                     ELSE IF Accepts(oc[i]) THEN L[i] ELSE None,
            log |-> << probe >> \o rest.log]

ProbeLoopAll(L, oc) == ProbeAll(L, oc, 1)

\* main.py:92-113 without the decorator.
ProbeLoop(L, oc) == ProbeFrom(L, oc, 1)

\* A plausible slip: a hand-written cache that keeps only a truthy result.
cached_model_name_truthy(c, oc) ==
  IF c.computed /\ c.name # None
    THEN [name |-> c.name, log |-> <<>>, cache |-> c]
    ELSE LET r == ProbeLoop(model_names, oc)
         IN  [name |-> r.name, log |-> r.log,
              cache |-> [computed |-> TRUE, name |-> r.name]]

\* main.py:91-113: @lru_cache(maxsize=1) on a function of no arguments keeps
\* whatever the first call returned, None included.
get_cached_model_name(c, oc) ==
  IF c.computed
    THEN [name |-> c.name, log |-> <<>>, cache |-> c]
    ELSE LET r == ProbeLoop(model_names, oc)
         IN  [name |-> r.name, log |-> r.log,
              cache |-> [computed |-> TRUE, name |-> r.name]]

\* A plausible slip: without the global statement of main.py:117 the
\* assignment of line 129 binds a local name and the handle stays unset.
get_model_local(gm, c, oc, ctorOk) ==
  IF gm # None
    THEN [model |-> gm, gm |-> gm, cache |-> c, log |-> <<>>]
    ELSE LET r == get_cached_model_name(c, oc)
         IN  [model |-> IF r.name # None /\ ctorOk THEN r.name ELSE None,
              gm |-> gm, cache |-> r.cache, log |-> r.log]

\* main.py:116-134.  ctorOk: whether genai.GenerativeModel(model_name) at line
\* 129 returns (it raised nothing for that name during the probe).
get_model(gm, c, oc, ctorOk) ==
  IF gm # None
    THEN [model |-> gm, gm |-> gm, cache |-> c, log |-> <<>>]
    ELSE LET r == get_cached_model_name(c, oc)
         IN  IF r.name = None
               THEN [model |-> None, gm |-> gm, cache |-> r.cache, log |-> r.log]
               ELSE IF ctorOk
                 THEN [model |-> r.name, gm |-> r.name, cache |-> r.cache,
                       log |-> r.log]
                 ELSE [model |-> None, gm |-> gm, cache |-> r.cache,
                       log |-> r.log]

\* The probe outcomes a call of get_model can meet: they matter only when the
\* loop runs.
ProbeInputs(gm, c) ==
  IF gm = None /\ ~c.computed
    THEN [1..Len(model_names) -> ProbeOutcomes]
    ELSE {[i \in 1..Len(model_names) |-> "raise"]}

CtorInputs(gm, c) ==
  IF gm = None /\ (~c.computed \/ c.name # None) THEN BOOLEAN ELSE {TRUE}

\* ------------------------------------------------------------ uploaded files
\* An upload: kind "none" (no file part), "unnamed" (a file part with an empty
\* filename), "other" (a filename that does not end in .zip) or "zip"; a zip
\* is valid (zipfile opens it) or not, and a valid one extracts to a tree.  A
\* tree is the sequence of directories os.walk yields, each the sequence of its
\* files in the order os.walk lists them.  A file is a CSV or not; a CSV is
\* "malformed" (read_csv raises), has no answer column ("nocolumn"), has one
\* with no row ("norows") or has one whose first row reads value ("answer").
Txt == [csv |-> FALSE, table |-> "none", value |-> <<>>]
CsvAnswer(v) == [csv |-> TRUE, table |-> "answer", value |-> v]
CsvNoColumn == [csv |-> TRUE, table |-> "nocolumn", value |-> <<>>]
CsvNoRows == [csv |-> TRUE, table |-> "norows", value |-> <<>>]
CsvMalformed == [csv |-> TRUE, table |-> "malformed", value |-> <<>>]

A1 == << "4", "2" >>
A2 == << "7" >>

NoFile == [kind |-> "none", valid |-> FALSE, tree |-> <<>>]
Unnamed == [kind |-> "unnamed", valid |-> FALSE, tree |-> <<>>]
OtherFile == [kind |-> "other", valid |-> FALSE, tree |-> <<>>]
BadZip == [kind |-> "zip", valid |-> FALSE, tree |-> <<>>]
Zip(t) == [kind |-> "zip", valid |-> TRUE, tree |-> t]

\* The trees requests upload: no CSV, a CSV without the column, two answers in
\* one directory, two answers in two directories, a malformed CSV in the
\* directory after an answer, an answer column without rows.
Trees ==
  { << << Txt >> >>,
    << << CsvNoColumn >> >>,
    << << CsvNoColumn, CsvAnswer(A1), CsvAnswer(A2) >> >>,
    << << CsvAnswer(A1) >>, << CsvAnswer(A2) >> >>,
    << << CsvAnswer(A1) >>, << CsvMalformed >> >>,
    << << CsvNoRows >> >> }

\* main.py:228: the uploads for which the handler skips file processing, and
\* so never awaits.
NoAwaitFiles == {NoFile, Unnamed}
\* The uploads the handler saves: it suspends at await file.read().
AwaitFiles == {OtherFile, BadZip} \cup {Zip(t) : t \in Trees}

\* --------------------------------------------------------------- archive scan
ScanNothing ==
  [raised |-> FALSE, error |-> "none", found |-> FALSE, answer |-> <<>>,
   reads |-> <<>>]

\* main.py:248-257: the inner loop over one directory's files from index i on;
\* the break leaves this loop only.  reads lists the CSVs read, as <<dir, file>>.
RECURSIVE ScanFiles(_, _, _)
ScanFiles(files, d, i) ==
  IF i > Len(files) THEN ScanNothing
  ELSE LET f == files[i]
           here == << << d, i >> >>
       IN  IF ~f.csv THEN ScanFiles(files, d, i + 1)
           ELSE IF f.table = "malformed"
             THEN [ScanNothing EXCEPT !.raised = TRUE, !.error = "ParserError",
                                      !.reads = here]
           ELSE IF f.table = "norows"
             THEN [ScanNothing EXCEPT !.raised = TRUE, !.error = "IndexError",
                                      !.reads = here]
           ELSE IF f.table = "answer"
             THEN [ScanNothing EXCEPT !.found = TRUE, !.answer = f.value,
                                      !.reads = here]
           ELSE LET rest == ScanFiles(files, d, i + 1)
                IN  [rest EXCEPT !.reads = here \o @]

\* main.py:247: the outer loop over os.walk from directory d on; acc is what
\* the directories before d left in answer.
RECURSIVE ScanDirs(_, _, _)
ScanDirs(tree, d, acc) ==
  IF d > Len(tree) THEN acc
  ELSE LET r == ScanFiles(tree[d], d, 1)
           merged ==
             [raised |-> r.raised, error |-> r.error,
              found |-> acc.found \/ r.found,
              answer |-> IF r.found THEN r.answer ELSE acc.answer,
              reads |-> acc.reads \o r.reads]
       IN  IF r.raised THEN merged ELSE ScanDirs(tree, d + 1, merged)

\* main.py:227-257: answer = None, then file processing.
ProcessFile(file) ==
  IF file.kind \in {"none", "unnamed", "other"} THEN ScanNothing
  ELSE IF ~file.valid
    THEN [ScanNothing EXCEPT !.raised = TRUE, !.error = "BadZipFile"]
  ELSE ScanDirs(file.tree, 1, ScanNothing)

\* main.py:259  if answer
HasAnswer(scan) == ~scan.raised /\ scan.found /\ scan.answer # <<>>

\* ------------------------------------------------------------------- history
\* A plausible slip: the cap is never enforced.
AppendRecordNoEvict(h, rec) == Append(h, rec)

\* main.py:261-270 and 302-311: append, then pop(0) when over the cap.
AppendRecord(h, rec) ==
  LET a == Append(h, rec)
  IN  IF Len(a) > HistoryCap THEN Tail(a) ELSE a

\* -------------------------------------------------------------- generation
\* The texts the external model answers with.
Texts ==
  { << "4" >>,
    << WS, DQ, "4", DQ, WS >>,
    << BT, BT, BT, "P", BT, BT, BT >> }

\* What model.generate_content(prompt) does: raise, return a response without
\* text, or return one with a text.  kind "unused": the call is not reached.
GenUnused == [kind |-> "unused", text |-> <<>>]
GenOutcomes ==
  {[kind |-> "raise", text |-> <<>>], [kind |-> "notext", text |-> <<>>]}
    \cup {[kind |-> "text", text |-> t] : t \in Texts}

\* The question a request arriving at time now asks: consecutive arrivals ask
\* different questions, so two requests in flight never ask the same one.
QuestionInputs(now) == {IF now % 2 = 0 THEN "q1" ELSE "q2"}
TestQuestion == "What is 2+2?"
NoModelError == "Could not initialize AI model"

\* ------------------------------------------------------------------ handlers
\* A plausible slip: the no-model branch answers as POST /api/ does, with 500.
TestReplyNoModel500(model, gen) ==
  IF model = None
    THEN [status |-> 500, body |-> "error", question |-> "", answer |-> <<>>,
          error |-> NoModelError, gencalls |-> 0]
  ELSE IF gen.kind \in {"raise", "notext"}
    THEN [status |-> 200, body |-> "error", question |-> "", answer |-> <<>>,
          error |-> "GenerationError", gencalls |-> 1]
  ELSE [status |-> 200, body |-> "qa", question |-> TestQuestion,
        answer |-> Strip(gen.text), error |-> "none", gencalls |-> 1]

\* main.py:184-202: GET /test once get_model has returned model.
TestReply(model, gen) ==
  IF model = None
    THEN [status |-> 200, body |-> "error", question |-> "", answer |-> <<>>,
          error |-> NoModelError, gencalls |-> 0]
  ELSE IF gen.kind = "raise"
    THEN [status |-> 200, body |-> "error", question |-> "", answer |-> <<>>,
          error |-> "GenerationError", gencalls |-> 1]
  ELSE IF gen.kind = "notext"
    THEN [status |-> 200, body |-> "error", question |-> "", answer |-> <<>>,
          error |-> "NoText", gencalls |-> 1]
  ELSE [status |-> 200, body |-> "qa", question |-> TestQuestion,
        answer |-> Strip(gen.text), error |-> "none", gencalls |-> 1]

\* main.py:220-224
NoModelReply(h) ==
  [status |-> 500, body |-> "error", answer |-> <<>>, error |-> NoModelError,
   history |-> h, gencalls |-> 0]

\* main.py:318-325
ErrorReply(msg, h, n) ==
  [status |-> 500, body |-> "error", answer |-> <<>>, error |-> msg,
   history |-> h, gencalls |-> n]

\* A plausible slip: the record is appended before the model is asked, so a
\* failed generation leaves a record behind.
AnswerReplySpeculative(question, file, gen, h, now) ==
  LET scan == ProcessFile(file)
      early == AppendRecord(h, [question |-> question, answer |-> <<>>,
                                timestamp |-> now,
                                had_file |-> file.kind # "none"])
  IN  IF scan.raised THEN ErrorReply(scan.error, h, 0)
      ELSE IF HasAnswer(scan)
        THEN [status |-> 200, body |-> "answer", answer |-> scan.answer,
              error |-> "none",
              history |-> AppendRecord(h, [question |-> question,
                                           answer |-> scan.answer,
                                           timestamp |-> now,
                                           had_file |-> TRUE]),
              gencalls |-> 0]
      ELSE IF gen.kind = "raise" THEN ErrorReply("GenerationError", early, 1)
      ELSE IF gen.kind = "notext"
        THEN ErrorReply("Unexpected response format from Gemini API", early, 1)
      ELSE LET a == normalize(gen.text)
           IN  [status |-> 200, body |-> "answer", answer |-> a,
                error |-> "none",
                history |-> AppendRecord(h, [question |-> question,
                                             answer |-> a,
                                             timestamp |-> now,
                                             had_file |-> file.kind # "none"]),
                gencalls |-> 1]

\* main.py:227-325: POST /api/ from the file processing on, with a model in
\* hand.  now is datetime.datetime.now() at the append.
AnswerReply(question, file, gen, h, now) ==
  LET scan == ProcessFile(file)
  IN  IF scan.raised THEN ErrorReply(scan.error, h, 0)
      ELSE IF HasAnswer(scan)
        THEN [status |-> 200, body |-> "answer", answer |-> scan.answer,
              error |-> "none",
              history |-> AppendRecord(h, [question |-> question,
                                           answer |-> scan.answer,
                                           timestamp |-> now,
                                           had_file |-> TRUE]),
              gencalls |-> 0]
      ELSE IF gen.kind = "raise" THEN ErrorReply("GenerationError", h, 1)
      ELSE IF gen.kind = "notext"
        THEN ErrorReply("Unexpected response format from Gemini API", h, 1)
      ELSE LET a == normalize(gen.text)
           IN  [status |-> 200, body |-> "answer", answer |-> a,
                error |-> "none",
                history |-> AppendRecord(h, [question |-> question,
                                             answer |-> a,
                                             timestamp |-> now,
                                             had_file |-> file.kind # "none"]),
                gencalls |-> 1]

\* Whether AnswerReply reaches model.generate_content(prompt).
ReachesGeneration(file) ==
  LET scan == ProcessFile(file) IN ~scan.raised /\ ~HasAnswer(scan)

GenInputs(reached) == IF reached THEN GenOutcomes ELSE {GenUnused}

\* ------------------------------------------------------------ state machine
NoLast ==
  [route |-> "none", phase |-> "none", status |-> 0, body |-> "none",
   question |-> "", answer |-> <<>>, error |-> "none", file |-> NoFile,
   calls |-> 0, model |-> None, at |-> 0]

\* The state after the module has been imported (main.py:86-88).
Init ==
  /\ gemini_model = None
  /\ name_cache = [computed |-> FALSE, name |-> None]
  /\ question_history = <<>>
  /\ clock = 0
  /\ steps = MaxRequests
  /\ inflight = {}
  /\ probeLog = <<>>
  /\ last = NoLast
  /\ normIn = <<>> /\ normOut = <<>> /\ normAgain = <<>> /\ normStage = "off"

\* main.py:181-202: GET /test, which never awaits.
GetTest ==
  /\ steps > 0
  /\ \E oc \in ProbeInputs(gemini_model, name_cache),
        ctorOk \in CtorInputs(gemini_model, name_cache) :
       LET m == get_model(gemini_model, name_cache, oc, ctorOk)
       IN  \E gen \in GenInputs(m.model # None) :
             LET r == TestReply(m.model, gen)
             IN  /\ gemini_model' = m.gm
                 /\ name_cache' = m.cache
                 /\ probeLog' = probeLog \o m.log
                 /\ last' = [route |-> "test", phase |-> "done",
                             status |-> r.status, body |-> r.body,
                             question |-> r.question, answer |-> r.answer,
                             error |-> r.error, file |-> NoFile,
                             calls |-> Len(m.log) + r.gencalls,
                             model |-> m.model, at |-> clock + 1]
  /\ clock' = clock + 1
  /\ steps' = steps - 1
  /\ UNCHANGED << question_history, inflight, normVars >>

\* main.py:205-325: POST /api/ with no file to save: the handler runs to its
\* response without an await.
PostNoAwait ==
  /\ steps > 0
  /\ \E q \in QuestionInputs(clock), file \in NoAwaitFiles,
        oc \in ProbeInputs(gemini_model, name_cache),
        ctorOk \in CtorInputs(gemini_model, name_cache) :
       LET m == get_model(gemini_model, name_cache, oc, ctorOk)
       IN  \E gen \in GenInputs(m.model # None) :
             LET r == IF m.model = None THEN NoModelReply(question_history)
                      ELSE AnswerReply(q, file, gen, question_history, clock + 1)
             IN  /\ gemini_model' = m.gm
                 /\ name_cache' = m.cache
                 /\ probeLog' = probeLog \o m.log
                 /\ question_history' = r.history
                 /\ last' = [route |-> "api", phase |-> "done",
                             status |-> r.status, body |-> r.body,
                             question |-> q, answer |-> r.answer,
                             error |-> r.error, file |-> file,
                             calls |-> Len(m.log) + r.gencalls,
                             model |-> m.model, at |-> clock + 1]
  /\ clock' = clock + 1
  /\ steps' = steps - 1
  /\ UNCHANGED << inflight, normVars >>

\* main.py:205-235: POST /api/ with a file to save, up to await file.read():
\* get_model, the 500 when there is no model, else the suspension.
PostBegin ==
  /\ steps > 0
  /\ Cardinality(inflight) < MaxInflight
  /\ \E q \in QuestionInputs(clock), file \in AwaitFiles,
        oc \in ProbeInputs(gemini_model, name_cache),
        ctorOk \in CtorInputs(gemini_model, name_cache) :
       LET m == get_model(gemini_model, name_cache, oc, ctorOk)
           r == NoModelReply(question_history)
       IN  /\ gemini_model' = m.gm
           /\ name_cache' = m.cache
           /\ probeLog' = probeLog \o m.log
           /\ inflight' =
                IF m.model = None THEN inflight
                ELSE inflight \cup {[id |-> clock + 1, question |-> q,
                                     file |-> file, model |-> m.model,
                                     calls |-> Len(m.log)]}
           /\ last' = [route |-> "api",
                       phase |-> IF m.model = None THEN "done" ELSE "suspended",
                       status |-> IF m.model = None THEN r.status ELSE 0,
                       body |-> IF m.model = None THEN r.body ELSE "none",
                       question |-> q, answer |-> <<>>,
                       error |-> IF m.model = None THEN r.error ELSE "none",
                       file |-> file, calls |-> Len(m.log),
                       model |-> m.model, at |-> clock + 1]
  /\ clock' = clock + 1
  /\ steps' = steps - 1
  /\ UNCHANGED << question_history, normVars >>

\* main.py:236-325: a suspended POST /api/ resumes after file.read() and runs
\* to its response.
PostResume ==
  /\ \E req \in inflight :
       \E gen \in GenInputs(ReachesGeneration(req.file)) :
         LET r == AnswerReply(req.question, req.file, gen, question_history,
                              clock + 1)
         IN  /\ question_history' = r.history
             /\ inflight' = inflight \ {req}
             /\ last' = [route |-> "api", phase |-> "done",
                         status |-> r.status, body |-> r.body,
                         question |-> req.question, answer |-> r.answer,
                         error |-> r.error, file |-> req.file,
                         calls |-> req.calls + r.gencalls,
                         model |-> req.model, at |-> clock + 1]
  /\ clock' = clock + 1
  /\ UNCHANGED << gemini_model, name_cache, probeLog, steps, normVars >>

Next == GetTest \/ PostNoAwait \/ PostBegin \/ PostResume

Spec == Init /\ [][Next]_vars

\* ------------------------------------------- a process with a long history
\* The history after n requests without a file, each answered by the model
\* with the text 4: request i arrives at time i - 1 and is recorded at time i.
Prefill(n) ==
  [i \in 1..n |-> [question |-> CHOOSE q \in QuestionInputs(i - 1) : TRUE,
                   answer |-> << "4" >>, timestamp |-> i, had_file |-> FALSE]]

\* The states of a process that has answered HistoryCap - 1 or HistoryCap
\* such requests, its first candidate having passed the smoke test.
InitWarm ==
  /\ gemini_model = model_names[1]
  /\ name_cache = [computed |-> TRUE, name |-> model_names[1]]
  /\ clock \in {HistoryCap - 1, HistoryCap}
  /\ question_history = Prefill(clock)
  /\ steps = MaxRequests
  /\ inflight = {}
  /\ probeLog = << [name |-> model_names[1], outcome |-> "text"] >>
  /\ last = [route |-> "api", phase |-> "done", status |-> 200,
             body |-> "answer",
             question |-> CHOOSE q \in QuestionInputs(clock - 1) : TRUE,
             answer |-> << "4" >>, error |-> "none", file |-> NoFile,
             calls |-> 1, model |-> model_names[1], at |-> clock]
  /\ normIn = <<>> /\ normOut = <<>> /\ normAgain = <<>> /\ normStage = "off"

SpecHist == InitWarm /\ [][Next]_vars

\* --------------------------------------------- normalisation as a function
Chars == {WS, DQ, SQ, BT, "a"}
Strings(n) == UNION {[1..k -> Chars] : k \in 0..n}
Fence == << BT, BT, BT >>
Fenced(t) == Fence \o t \o Fence

\* Every string of at most MaxLen characters, bare, fenced and fenced twice.
NormInputs ==
  Strings(MaxLen) \cup {Fenced(t) : t \in Strings(MaxLen)}
    \cup {Fenced(Fenced(t)) : t \in Strings(MaxLen)}

InitNorm ==
  /\ gemini_model = None
  /\ name_cache = [computed |-> FALSE, name |-> None]
  /\ question_history = <<>>
  /\ clock = 0
  /\ steps = 0
  /\ inflight = {}
  /\ probeLog = <<>>
  /\ last = NoLast
  /\ normIn \in NormInputs
  /\ normOut = <<>> /\ normAgain = <<>> /\ normStage = "in"

\* main.py:291-296 applied to the raw text.
NormalizeOnce ==
  /\ normStage = "in"
  /\ normOut' = normalize(normIn)
  /\ normStage' = "once"
  /\ UNCHANGED << appVars, normIn, normAgain >>

\* main.py:291-296 applied to its own output.
NormalizeAgain ==
  /\ normStage = "once"
  /\ normAgain' = normalize(normOut)
  /\ normStage' = "twice"
  /\ UNCHANGED << appVars, normIn, normOut >>

NextNorm == NormalizeOnce \/ NormalizeAgain

SpecNorm == InitNorm /\ [][NextNorm]_vars

\* ===================================================================== claims
\* A handler step has just been taken (every step stamps last with the time).
Stepped == last'.at # last.at

\* last is the response of a POST /api/ that had a model handle in hand.
ApiDoneWithModel ==
  last.route = "api" /\ last.phase = "done" /\ last.model # None

\* The entries of a tree in enumeration order, as <<dir, file>> positions.
Positions(tree) ==
  UNION {{<< d, i >> : i \in 1..Len(tree[d])} : d \in 1..Len(tree)}
Before(p, q) == p[1] < q[1] \/ (p[1] = q[1] /\ p[2] < q[2])
EntryAt(tree, p) == tree[p[1]][p[2]]
\* p is the first CSV with an answer column, and every CSV before it reads
\* without error.
IsFirstMatch(tree, p) ==
  /\ EntryAt(tree, p).csv
  /\ EntryAt(tree, p).table = "answer"
  /\ \A q \in Positions(tree) :
       Before(q, p) =>
         (~EntryAt(tree, q).csv \/ EntryAt(tree, q).table = "nocolumn")

\* C1 (as claimed): a POST /api/ whose archive yields an answer, in a process
\* where model resolution succeeds, responds with the archive's answer and
\* issues no generate-content call, smoke-test probes included.
C1_ArchiveAnswerIssuesNoModelCall ==
  (ApiDoneWithModel /\ HasAnswer(ProcessFile(last.file)))
    => /\ last.body = "answer"
       /\ last.answer = ProcessFile(last.file).answer
       /\ last.calls = 0

C2_InOrder ==
  \A i \in 1..Len(question_history) - 1 :
    question_history[i].timestamp < question_history[i + 1].timestamp
C2_AppendEvictsOldest ==
  question_history' # question_history
    => /\ question_history' # <<>>
       /\ question_history' =
            Append(IF Len(question_history) = HistoryCap
                     THEN Tail(question_history) ELSE question_history,
                   question_history'[Len(question_history')])
\* C2: the history never holds more than HistoryCap records, its records stay
\* in insertion order, and a step that changes it appends one record, after
\* dropping the oldest one (index 0) when the history was full.
C2_HistoryBoundedFifo ==
  /\ [](Len(question_history) <= HistoryCap /\ C2_InOrder)
  /\ [][C2_AppendEvictsOldest]_vars
\* C2 witness: a full history whose oldest record has been evicted.
C2_Witness ==
  /\ Len(question_history) = HistoryCap
  /\ question_history[1].timestamp > 1
  /\ question_history[HistoryCap].timestamp > HistoryCap

\* C3: once resolution has run, the probes issued are the candidates in list
\* order up to the one returned; every probe before the last failed; the name
\* returned is the last one probed if its probe succeeded, and otherwise every
\* candidate was probed and there is no working model.
C3_FirstWorkingCandidate ==
  IF ~name_cache.computed THEN probeLog = <<>>
  ELSE LET n == Len(probeLog)
       IN  /\ n \in 1..Len(model_names)
           /\ \A i \in 1..n : probeLog[i].name = model_names[i]
           /\ \A i \in 1..n - 1 : ~Accepts(probeLog[i].outcome)
           /\ IF Accepts(probeLog[n].outcome)
                THEN name_cache.name = model_names[n]
                ELSE n = Len(model_names) /\ name_cache.name = None
\* C3 witness: two candidates failed and the third was accepted.
C3_Witness ==
  /\ name_cache.computed
  /\ name_cache.name = model_names[3]
  /\ Len(probeLog) = 3

C4_NoArchiveAnswer(file) ==
  \/ file.kind = "other"
  \/ file.kind = "zip" /\ ~file.valid
  \/ /\ file.kind = "zip" /\ file.valid
     /\ \A p \in Positions(file.tree) :
          ~EntryAt(file.tree, p).csv \/ EntryAt(file.tree, p).table = "nocolumn"
C4_ModelFailed ==
  last.error \in {"GenerationError", "Unexpected response format from Gemini API"}
\* C4 (as claimed): a POST /api/ whose file is not a ZIP, is no valid ZIP,
\* holds no CSV or holds only CSVs without an answer column responds with the
\* model's answer when the model works.
C4_FileWithoutAnswerFallsThrough ==
  (ApiDoneWithModel /\ C4_NoArchiveAnswer(last.file) /\ ~C4_ModelFailed)
    => last.status = 200 /\ last.body = "answer"

\* C5 (as claimed): normalising twice gives what normalising once gives.
C5_NormalizeIdempotent == normStage = "twice" => normAgain = normOut
C5_Clean(s) == Strip(s) = s /\ ~(StartsWithFence(s) /\ EndsWithFence(s))
\* C5 (amended): normalising twice gives what normalising once gives exactly
\* when the first result has no whitespace at either end and is not itself
\* wrapped in fences.
C5_IdempotentIffClean ==
  normStage = "twice" => ((normAgain = normOut) <=> C5_Clean(normOut))
\* C5 witness: a fenced input, changed by normalisation, on which a second
\* pass changes nothing more.
C5_Witness ==
  /\ normStage = "twice"
  /\ normAgain = normOut
  /\ normOut # normIn
  /\ normOut # <<>>
  /\ StartsWithFence(normIn)

C6_ProbedAtMostOnce ==
  \A i, j \in 1..Len(probeLog) :
    i # j => probeLog[i].name # probeLog[j].name
C6_NoReprobe ==
  name_cache.computed
    => /\ probeLog' = probeLog
       /\ name_cache' = name_cache
       /\ (name_cache.name = None /\ Stepped)
            => /\ gemini_model' = None
               /\ last'.phase = "done"
               /\ last'.body = "error"
               /\ last'.error = NoModelError
\* C6: once a resolution pass has ended, no step probes again or changes the
\* cached outcome, so no candidate is probed twice; and after a pass in which
\* every candidate failed no handle is ever bound and every later request is
\* answered with the no-model error.
C6_ResolutionCached == []C6_ProbedAtMostOnce /\ [][C6_NoReprobe]_vars
\* C6 witness: a second request after a pass in which all candidates failed.
C6_Witness ==
  /\ name_cache.computed
  /\ name_cache.name = None
  /\ Len(probeLog) = Len(model_names)
  /\ clock = 2
  /\ last.error = NoModelError

C7_Record ==
  [question |-> last'.question, answer |-> last'.answer,
   timestamp |-> last'.at, had_file |-> last'.file.kind # "none"]
C7_AppendOnlyWithAnswer ==
  Stepped
    => IF last'.route = "api" /\ last'.phase = "done" /\ last'.body = "answer"
         THEN question_history' =
                Append(IF Len(question_history) = HistoryCap
                         THEN Tail(question_history) ELSE question_history,
                       C7_Record)
         ELSE question_history' = question_history
\* C7: a POST /api/ step that responds with an answer appends exactly one
\* record, carrying its question and that answer (dropping the oldest record
\* of a full history); every other step, an error response included, leaves
\* the history as it was.
C7_AppendAfterAnswer == [][C7_AppendOnlyWithAnswer]_vars
\* C7 witness: a request was answered and recorded, then the generation of the
\* next one failed.
C7_Witness ==
  /\ last.route = "api"
  /\ last.body = "error"
  /\ last.error = "GenerationError"
  /\ Len(question_history) = 1

\* C8 (as claimed): a POST /api/ whose archive yields an answer responds with
\* that answer and records it with had_file set, both when a model is resolved
\* and when no candidate works; the no-model error is only given when the scan
\* yields no answer.
C8_ArchiveAnswerNeedsNoModel ==
  (last.route = "api" /\ last.phase = "done"
     /\ (last.model # None \/ (name_cache.computed /\ name_cache.name = None))
     /\ HasAnswer(ProcessFile(last.file)))
    => /\ last.body = "answer"
       /\ last.answer = ProcessFile(last.file).answer
       /\ question_history # <<>>
       /\ question_history[Len(question_history)].had_file
       /\ last.error # NoModelError

C9_TestStep ==
  (Stepped /\ last'.route = "test")
    => /\ last'.status = 200
       /\ last'.phase = "done"
       /\ question_history' = question_history
       /\ IF last'.model = None
            THEN last'.body = "error" /\ last'.error = NoModelError
            ELSE \/ /\ last'.body = "qa"
                    /\ last'.question = TestQuestion
                    /\ last'.error = "none"
                 \/ /\ last'.body = "error"
                    /\ last'.error \notin {"none", NoModelError}
\* C9: GET /test responds with status 200 whatever happens: with the question
\* and the answer when a model is resolved and generation succeeds, with an
\* error body otherwise (the no-model message when resolution fails); and it
\* leaves the history as it was.
C9_TestAlways200 == [][C9_TestStep]_vars
\* C9 witness: GET /test answered 200 with the no-model error.
C9_Witness ==
  /\ last.route = "test"
  /\ last.status = 200
  /\ last.body = "error"
  /\ last.error = NoModelError

\* C10 (as claimed): the scanned answer is the value of the first CSV with an
\* answer column in enumeration order, and no CSV after it is read.
C10_FirstMatchWins ==
  \A p \in Positions(last.file.tree) :
    (ApiDoneWithModel /\ last.file.kind = "zip" /\ last.file.valid
       /\ IsFirstMatch(last.file.tree, p))
      => /\ last.body = "answer"
         /\ last.answer = EntryAt(last.file.tree, p).value
         /\ ProcessFile(last.file).reads # <<>>
         /\ ProcessFile(last.file).reads[Len(ProcessFile(last.file).reads)] = p

\* C11 (as claimed): a candidate is accepted only on a probe that returned a
\* non-empty text; a probe that raised, or returned an empty or a missing
\* text, is a failure of that candidate, after which resolution goes on to
\* the next candidate (or ends without a model after the last one).
C11_AcceptsOnlyNonEmptyText ==
  \A i \in 1..Len(probeLog) :
    /\ (name_cache.computed /\ name_cache.name = probeLog[i].name
          /\ gemini_model = name_cache.name)
         => probeLog[i].outcome = "text"
    /\ probeLog[i].outcome \in {"raise", "empty", "notext"}
         => /\ name_cache.name # probeLog[i].name
            /\ IF i < Len(model_names)
                 THEN /\ i < Len(probeLog)
                      /\ probeLog[i + 1].name = model_names[i + 1]
                 ELSE name_cache.name = None

C12_HandleIsAcceptedCandidate ==
  gemini_model # None
    => /\ name_cache.computed
       /\ name_cache.name = gemini_model
       /\ probeLog # <<>>
       /\ probeLog[Len(probeLog)].name = gemini_model
       /\ Accepts(probeLog[Len(probeLog)].outcome)
       /\ \A req \in inflight : req.model = gemini_model
C12_HandleStep ==
  /\ gemini_model # None => gemini_model' = gemini_model
  /\ (Stepped /\ last'.model # None) => gemini_model' = last'.model
  /\ (Stepped /\ gemini_model # None) => last'.model = gemini_model
\* C12: under every interleaving of GET /test and POST /api/ steps (a POST
\* with a file may be suspended at its await while other requests run), the
\* handle, once set, is never set again, changed or unset; it is bound to the
\* candidate whose probe ended the resolution pass; and every step taken after
\* it was set, the resumption of a suspended request included, uses it.
C12_HandleWrittenOnce ==
  []C12_HandleIsAcceptedCandidate /\ [][C12_HandleStep]_vars
\* C12 witness: two requests were in flight with the handle bound to the
\* third candidate, and one of them has resumed and answered.
C12_Witness ==
  /\ gemini_model = model_names[3]
  /\ inflight # {}
  /\ last.route = "api"
  /\ last.phase = "done"
  /\ last.body = "answer"
  /\ last.model = gemini_model
====
